---- MODULE Spec2Model ----
(***************************************************************************)
(* A model of the mydyndns agent (pkg/agent/agent.go): the supervisor Run, *)
(* the Poller goroutine pollIP and the Updater goroutine updateDNS, which  *)
(* talk over a channel of capacity 1 and share one context; and of the SDK *)
(* client (pkg/sdk/client.go), whose two operations fetch an address.      *)
(***************************************************************************)
EXTENDS Integers, Sequences, FiniteSets, TLC

(***************************************************************************)
(* Bounds of the model.                                                    *)
(***************************************************************************)
\* the last four bytes of the addresses the client may report are 1..MaxAddr
MaxAddr == 2

(***************************************************************************)
(* Program constants.                                                      *)
(***************************************************************************)
\* make(chan net.IP, 1)
ChanCap == 1

(***************************************************************************)
(* net.IP values.  A net.IP is a byte slice of length 4 or 16; a 16-byte   *)
(* slice that starts with the v4InV6Prefix carries an IPv4 address in its  *)
(* last four bytes.  [len, pre, tail] stands for the slice: len is its     *)
(* length, tail its last four bytes and pre its first twelve bytes (none   *)
(* for a 4-byte slice; the v4InV6Prefix or the prefix of another IPv6      *)
(* network for a 16-byte slice).                                           *)
(***************************************************************************)
Addrs == 1..MaxAddr
\* net.IPv4len and net.IPv6len
IPLens == {4, 16}
\* the first twelve bytes of a 16-byte slice
V4InV6Prefix == "v4InV6"
Prefixes == {V4InV6Prefix, "other"}
\* the values the client may return: the 4-byte slices of the addresses
\* 1..MaxAddr and, for the address 1, the 16-byte slices with either prefix
IPs == [len : {4}, pre : {""}, tail : Addrs]
          \cup [len : {16}, pre : Prefixes, tail : {1}]
\* the zero value of a net.IP variable that holds nothing (yet)
NoIP == [len |-> 0, pre |-> "", tail |-> 0]

\* the address an IP value denotes, whatever its representation: the 16
\* bytes of its IPv6 form
AddrOf(ip) == IF ip.len = 4 THEN <<V4InV6Prefix, ip.tail>>
                            ELSE <<ip.pre, ip.tail>>

\* net.IP.Equal without the test of the v4InV6Prefix
IPEqual_TailOnly(ip, x) ==
    IF ip.len = x.len THEN ip = x ELSE ip.tail = x.tail

\* net.IP.Equal as called by updateDNS: equal lengths compare the bytes; a
\* 4-byte and a 16-byte value are equal when the 16-byte one has the
\* v4InV6Prefix and the 4 bytes as its tail
IPEqual(ip, x) ==
    IF ip.len = x.len THEN ip = x
    ELSE IF ip.len = 4 /\ x.len = 16
        THEN x.pre = V4InV6Prefix /\ ip.tail = x.tail
    ELSE IF ip.len = 16 /\ x.len = 4
        THEN ip.pre = V4InV6Prefix /\ ip.tail = x.tail
    ELSE FALSE

(***************************************************************************)
(* Errors.  An error is the chain of the errors it wraps, outermost first; *)
(* the nil error is the empty chain.                                       *)
(***************************************************************************)
NilErr == <<>>
\* fmt.Errorf("...: %w", err)
Wrap(msg, err) == <<msg>> \o err
\* errors.Is(err, target): target is err or one of the errors err wraps
ErrorIs(err, target) ==
    \E i \in 1..Len(err) : SubSeq(err, i, Len(err)) = target
\* ctx.Err(): nil until the context is done, then one of these
CtxErrs == { <<"context.Canceled">>, <<"context.DeadlineExceeded">> }
\* the errors an implementation of Client may return
ClientErrs == { <<"alias update error">>,
                <<"error", "context.Canceled">>,
                <<"context.DeadlineExceeded">> }

VARIABLES
    ctxErr,        \* ctx.Err()
    runPc,         \* position of Run
    runErr,        \* the error Run returned
    bootErr,       \* Run's local err, returned by the bootstrap call
    bootCtxErr,    \* Run's local ctxErr, read when the bootstrap failed
    bootCtxDone,   \* history: ctx was done when the bootstrap succeeded
    startIP,       \* Run's local startIP
    wg,            \* sync.WaitGroup counter
    ips,           \* the channel of polled addresses
    pollerPc,      \* position of pollIP
    tickerOn,      \* the ticker of pollIP is running
    tick,          \* ticker.C holds a tick
    myIP,          \* pollIP's local myIP
    updaterPc,     \* position of updateDNS
    previousIP,    \* updateDNS's local previousIP: the baseline
    latestIP,      \* updateDNS's local latestIP
    lastMsg,       \* the last record handed to the logger
    shutdownLogged,\* the units that logged "Shutdown requested"
    confirmedIP,   \* history: address of the last successful UpdateAlias
    updateCalls,   \* history: UpdateAlias calls made (saturating)
    fetchCalled,   \* history: MyIPWithContext was called
    lastUpdate,    \* history: the last update of the Updater that returned
    clPc,          \* position of the SDK client's fetchIP
    clOp,          \* the operation that called fetchIP
    clResp,        \* what the server and the transport answer
    clSize,        \* parseIP's local size
    clN,           \* the N of parseIP's io.LimitedReader
    clTurn,        \* parity of the Read calls of parseIP
    clParsed,      \* history: parseIP called UnmarshalText
    clIP,          \* the address fetchIP returned
    clErr          \* the error fetchIP returned

agentVars == <<ctxErr, runPc, runErr, bootErr, bootCtxErr, bootCtxDone,
               startIP, wg, ips,
               pollerPc, tickerOn, tick, myIP, updaterPc, previousIP,
               latestIP, lastMsg, shutdownLogged, confirmedIP, updateCalls,
               fetchCalled, lastUpdate>>

clientVars == <<clPc, clOp, clResp, clSize, clN, clTurn, clParsed, clIP,
                clErr>>

vars == <<agentVars, clientVars>>

runVars == <<runPc, runErr, bootErr, bootCtxErr, bootCtxDone, startIP>>
pollerVars == <<pollerPc, tickerOn, tick, myIP>>
updaterVars == <<updaterPc, previousIP, latestIP>>

\* the counter of UpdateAlias calls stops counting at MaxCalls
MaxCalls == 3
CountCall(n) == IF n < MaxCalls THEN n + 1 ELSE n

\* level.X(logger).Log("msg", msg) by the unit tagged agent_operation=op
Log(op, msg) ==
    /\ lastMsg' = <<op, msg>>
    /\ shutdownLogged' = IF msg = "Shutdown requested"
                         THEN shutdownLogged \cup {op}
                         ELSE shutdownLogged

\* no update of the Updater has returned yet
NoUpdate == [polled |-> NoIP, ok |-> FALSE]

\* failAt of a reader that never fails
NoFail == 0 - 1

\* the client has made no request yet
NoResp == [err |-> NilErr, status |-> 0,
           body |-> [len |-> 0, ipLen |-> 0, ip |-> NoIP], failAt |-> NoFail]

Init ==
    /\ ctxErr = NilErr
    /\ runPc = "start"
    /\ runErr = NilErr
    /\ bootErr = NilErr
    /\ bootCtxErr = NilErr
    /\ bootCtxDone = FALSE
    /\ startIP = NoIP
    /\ wg = 0
    /\ ips = <<>>
    /\ pollerPc = "idle"
    /\ tickerOn = FALSE
    /\ tick = FALSE
    /\ myIP = NoIP
    /\ updaterPc = "idle"
    /\ previousIP = NoIP
    /\ latestIP = NoIP
    /\ lastMsg = <<"", "">>
    /\ shutdownLogged = {}
    /\ confirmedIP = NoIP
    /\ updateCalls = 0
    /\ fetchCalled = FALSE
    /\ lastUpdate = NoUpdate
    /\ clPc = "idle"
    /\ clOp = ""
    /\ clResp = NoResp
    /\ clSize = 0
    /\ clN = 0
    /\ clTurn = 0
    /\ clParsed = FALSE
    /\ clIP = NoIP
    /\ clErr = NilErr

(***************************************************************************)
(* The environment: cancellation of the context and the ticker.            *)
(***************************************************************************)
\* cancel() is called or the deadline of the context passes
Cancel ==
    /\ ctxErr = NilErr
    /\ ctxErr' \in CtxErrs
    /\ UNCHANGED <<clientVars,
                   runVars, wg, ips, pollerVars, updaterVars, lastMsg,
                   shutdownLogged, confirmedIP, updateCalls, fetchCalled,
                   lastUpdate>>

\* the ticker puts a tick in ticker.C (capacity 1; a tick is dropped when
\* the previous one was not taken)
Tick ==
    /\ tickerOn
    /\ ~tick
    /\ tick' = TRUE
    /\ UNCHANGED <<clientVars,
                   ctxErr, runVars, wg, ips, pollerPc, tickerOn, myIP,
                   updaterVars, lastMsg, shutdownLogged, confirmedIP,
                   updateCalls, fetchCalled, lastUpdate>>

(***************************************************************************)
(* Run, the supervisor.                                                    *)
(***************************************************************************)
\* the start error formatted with %v: the cause is not wrapped
StartError_NotWrapped(err) == <<"failed to start agent">>

\* fmt.Errorf("failed to start agent: %w", err)
StartError(err) == Wrap("failed to start agent", err)

\* Run returning the error of a cancelled context, nil after a deadline
StoppedError_Canceled(c) == IF c = <<"context.Canceled">> THEN c ELSE NilErr

\* Run returning ctx.Err() after the wait
StoppedError_CtxErr(c) == c

\* the value Run returns after wg.Wait()
StoppedError(c) == NilErr

\* a wait that is over as soon as one of the two units is done
WaitDone_FirstUnit(w) == w <= 1

\* wg.Wait() returns when the counter is zero
WaitDone(w) == w = 0

\* log "Initializing agent..." and call client.UpdateAliasWithContext(ctx)
RunInit ==
    /\ runPc = "start"
    /\ runPc' = "bootstrap"
    /\ updateCalls' = CountCall(updateCalls)
    /\ Log("", "Initializing agent...")
    /\ UNCHANGED <<clientVars,
                   ctxErr, runErr, bootErr, bootCtxErr, bootCtxDone,
                   startIP, wg, ips, pollerVars,
                   updaterVars, confirmedIP, fetchCalled, lastUpdate>>

\* the bootstrap call returns an address: make the WaitGroup and the channel
RunBootstrapOK ==
    /\ runPc = "bootstrap"
    /\ \E ip \in IPs :
        /\ startIP' = ip
        /\ confirmedIP' = ip
    /\ bootCtxDone' = (ctxErr # NilErr)
    /\ Log("", "Initialized with IP address after DNS update")
    /\ wg' = 0
    /\ ips' = <<>>
    /\ runPc' = "launchPoller"
    /\ UNCHANGED <<clientVars,
                   ctxErr, runErr, bootErr, bootCtxErr, pollerVars,
                   updaterVars, updateCalls, fetchCalled, lastUpdate>>

\* a Run that logs the error of the bootstrap call and goes on
AfterBootstrapError_GoOn == "launchPoller"

\* where Run goes when the bootstrap call failed: it returns
AfterBootstrapError == "failed"

\* the bootstrap call returns an error: Run reads ctx.Err() (to warn of a
\* shutdown requested before start), logs err and returns err wrapped
RunBootstrapFail ==
    /\ runPc = "bootstrap"
    /\ \E err \in ClientErrs :
        /\ bootErr' = err
        /\ runErr' = StartError(err)
    /\ bootCtxErr' = ctxErr
    /\ UNCHANGED bootCtxDone
    /\ Log("", "Error getting initial IP address")
    /\ runPc' = AfterBootstrapError
    /\ UNCHANGED <<clientVars,
                   ctxErr, startIP, wg, ips, pollerVars, updaterVars,
                   confirmedIP, updateCalls, fetchCalled, lastUpdate>>

\* wg.Add(1); go func() { defer wg.Done(); pollIP(...) }()
RunLaunchPoller ==
    /\ runPc = "launchPoller"
    /\ wg' = wg + 1
    /\ pollerPc' = "start"
    /\ runPc' = "launchUpdater"
    /\ UNCHANGED <<clientVars,
                   ctxErr, runErr, bootErr, bootCtxErr, bootCtxDone,
                   startIP, ips, tickerOn, tick,
                   myIP, updaterVars, lastMsg, shutdownLogged, confirmedIP,
                   updateCalls, fetchCalled, lastUpdate>>

\* wg.Add(1); go func() { defer wg.Done(); updateDNS(...) }()
RunLaunchUpdater ==
    /\ runPc = "launchUpdater"
    /\ wg' = wg + 1
    /\ updaterPc' = "start"
    /\ runPc' = "wait"
    /\ UNCHANGED <<clientVars,
                   ctxErr, runErr, bootErr, bootCtxErr, bootCtxDone,
                   startIP, ips, pollerVars,
                   previousIP, latestIP, lastMsg, shutdownLogged,
                   confirmedIP, updateCalls, fetchCalled, lastUpdate>>

\* wg.Wait() returns; log "Agent stopped"
RunWait ==
    /\ runPc = "wait"
    /\ WaitDone(wg)
    /\ Log("", "Agent stopped")
    /\ runPc' = "stopped"
    /\ UNCHANGED <<clientVars,
                   ctxErr, runErr, bootErr, bootCtxErr, bootCtxDone,
                   startIP, wg, ips, pollerVars,
                   updaterVars, confirmedIP, updateCalls, fetchCalled,
                   lastUpdate>>

\* return nil
RunReturn ==
    /\ runPc = "stopped"
    /\ runErr' = StoppedError(ctxErr)
    /\ runPc' = "returned"
    /\ UNCHANGED <<clientVars,
                   ctxErr, bootErr, bootCtxErr, bootCtxDone, startIP, wg, ips,
                   pollerVars,
                   updaterVars, lastMsg, shutdownLogged, confirmedIP,
                   updateCalls, fetchCalled, lastUpdate>>

(***************************************************************************)
(* pollIP, the Poller.                                                     *)
(***************************************************************************)
\* pollIP giving up after a failed fetch
AfterFetchError_Return == "returning"

\* pollIP sending myIP although the fetch failed (the else is missing)
AfterFetchError_Send == "sending"

\* where pollIP goes after a failed fetch: back to the select
AfterFetchError == "select"

\* log "Starting periodic refresh"; ticker := time.NewTicker(interval)
PollerStart ==
    /\ pollerPc = "start"
    /\ tickerOn' = TRUE
    /\ Log("refresh", "Starting periodic refresh")
    /\ pollerPc' = "select"
    /\ UNCHANGED <<clientVars,
                   ctxErr, runVars, wg, ips, tick, myIP, updaterVars,
                   confirmedIP, updateCalls, fetchCalled, lastUpdate>>

\* a Poller that asks for its address with the call that updates the alias
PollerCall_UpdateAlias == "UpdateAliasWithContext"

\* the method of the Client that pollIP calls
PollerCall == "MyIPWithContext"

\* case tick := <-ticker.C: log and call client.MyIPWithContext(ctx)
PollerTick ==
    /\ pollerPc = "select"
    /\ tick
    /\ tick' = FALSE
    /\ IF PollerCall = "MyIPWithContext"
       THEN fetchCalled' = TRUE /\ UNCHANGED updateCalls
       ELSE updateCalls' = CountCall(updateCalls) /\ UNCHANGED fetchCalled
    /\ Log("refresh", "Fetching my IP address...")
    /\ pollerPc' = "fetching"
    /\ UNCHANGED <<clientVars,
                   ctxErr, runVars, wg, ips, tickerOn, myIP, updaterVars,
                   confirmedIP, lastUpdate>>

\* the fetch returns an address: go on to send it
PollerFetchOK ==
    /\ pollerPc = "fetching"
    /\ \E ip \in IPs : myIP' = ip
    /\ Log("refresh", "Fetched my IP address")
    /\ pollerPc' = "sending"
    /\ UNCHANGED <<clientVars,
                   ctxErr, runVars, wg, ips, tickerOn, tick, updaterVars,
                   confirmedIP, updateCalls, fetchCalled, lastUpdate>>

\* the fetch returns an error: log it and go on with the loop
PollerFetchFail ==
    /\ pollerPc = "fetching"
    /\ Log("refresh", "Error fetching my IP address")
    /\ pollerPc' = AfterFetchError
    /\ UNCHANGED <<clientVars,
                   ctxErr, runVars, wg, ips, tickerOn, tick, myIP,
                   updaterVars, confirmedIP, updateCalls, fetchCalled,
                   lastUpdate>>

\* a send on a channel made with one more slot
CanSend_Cap2(ch) == Len(ch) < ChanCap + 1

\* a send on a channel without a bound
CanSend_Unbounded(ch) == TRUE

\* a send blocks while the channel is full
CanSend(ch) == Len(ch) < ChanCap

\* a send that loses the value
SendTo_Drop(ch, ip) == ch

\* ch <- ip: the value goes to the end of the channel's buffer
SendTo(ch, ip) == Append(ch, ip)

\* a Poller that shares the baseline and records what it sent
BaselineAfterPoll_Polled(previous, polled) == polled

\* the baseline after a poll: pollIP has no access to previousIP, a local
\* of updateDNS
BaselineAfterPoll(previous, polled) == previous

\* polledIPs <- myIP: blocks while the channel is full
PollerSend ==
    /\ pollerPc = "sending"
    /\ CanSend(ips)
    /\ ips' = SendTo(ips, myIP)
    /\ previousIP' = BaselineAfterPoll(previousIP, myIP)
    /\ myIP' = NoIP
    /\ pollerPc' = "select"
    /\ UNCHANGED <<clientVars,
                   ctxErr, runVars, wg, tickerOn, tick, updaterPc, latestIP,
                   lastMsg, shutdownLogged, confirmedIP, updateCalls,
                   fetchCalled, lastUpdate>>

\* a break in place of the return: it leaves the select, not the loop
AfterPollerShutdown_Break == "select"

\* where pollIP goes from the ctx.Done() case: it returns
AfterPollerShutdown == "returning"

\* case <-ctx.Done(): log "Shutdown requested"; ticker.Stop(); return
PollerShutdown ==
    /\ pollerPc = "select"
    /\ ctxErr # NilErr
    /\ Log("refresh", "Shutdown requested")
    /\ tickerOn' = FALSE
    /\ pollerPc' = AfterPollerShutdown
    /\ UNCHANGED <<clientVars,
                   ctxErr, runVars, wg, ips, tick, myIP, updaterVars,
                   confirmedIP, updateCalls, fetchCalled, lastUpdate>>

\* the deferred wg.Done() of the Poller's goroutine
PollerExit ==
    /\ pollerPc = "returning"
    /\ wg' = wg - 1
    /\ pollerPc' = "done"
    /\ UNCHANGED <<clientVars,
                   ctxErr, runVars, ips, tickerOn, tick, myIP, updaterVars,
                   lastMsg, shutdownLogged, confirmedIP, updateCalls,
                   fetchCalled, lastUpdate>>

(***************************************************************************)
(* updateDNS, the Updater.                                                 *)
(***************************************************************************)
\* an Updater that updates on every value it receives
NeedsUpdate_Always(latest, previous) == TRUE

\* comparing the byte slices instead of the addresses
NeedsUpdate_Bytes(latest, previous) == latest # previous

\* if !latestIP.Equal(previousIP)
NeedsUpdate(latest, previous) == ~IPEqual(latest, previous)

\* adopting the polled value after a successful update
BaselineAfterUpdate_Polled(aliasIP, latest) == latest

\* the baseline after a successful update: previousIP = aliasIP
BaselineAfterUpdate(aliasIP, latest) == aliasIP

\* adopting the polled value although the update failed
BaselineAfterError_Polled(previous, latest) == latest

\* the baseline after a failed update: previousIP is not assigned
BaselineAfterError(previous, latest) == previous

\* adopting the polled value when it equals the baseline
BaselineAfterNoChange_Polled(previous, latest) == latest

\* the baseline after a polled value that equals it: not assigned
BaselineAfterNoChange(previous, latest) == previous

\* previousIP := startIP; log "Waiting for refreshed IP address".  Nothing
\* reads startIP after this, and the model forgets it.
UpdaterStart ==
    /\ updaterPc = "start"
    /\ previousIP' = startIP
    /\ startIP' = NoIP
    /\ Log("update", "Waiting for refreshed IP address")
    /\ updaterPc' = "select"
    /\ UNCHANGED <<clientVars,
                   ctxErr, runPc, runErr, bootErr, bootCtxErr, bootCtxDone,
                   wg, ips,
                   pollerVars, latestIP, confirmedIP, updateCalls,
                   fetchCalled, lastUpdate>>

\* a receive that leaves the value in the channel
AfterReceive_Peek(ch) == ch

\* <-ch takes the first value out of the channel's buffer
AfterReceive(ch) == Tail(ch)

\* an Updater that takes the next value while its update call runs (the
\* call made in a goroutine of its own)
UpdaterAtSelect_Async(pc) == pc \in {"select", "updating"}

\* updateDNS receives in its select only: the update call is synchronous
UpdaterAtSelect(pc) == pc = "select"

\* case latestIP := <-latestIPs: compare with the baseline; when they
\* differ, log and call client.UpdateAliasWithContext(ctx)
UpdaterReceive ==
    /\ UpdaterAtSelect(updaterPc)
    /\ Len(ips) > 0
    /\ ips' = AfterReceive(ips)
    /\ IF NeedsUpdate(Head(ips), previousIP)
       THEN /\ latestIP' = Head(ips)
            /\ Log("update", "IP address change detected")
            /\ updateCalls' = CountCall(updateCalls)
            /\ updaterPc' = "updating"
            /\ UNCHANGED previousIP
       ELSE /\ latestIP' = Head(ips)
            /\ Log("update", "No change in latest IP address")
            /\ previousIP' = BaselineAfterNoChange(previousIP, Head(ips))
            /\ UNCHANGED <<updateCalls, updaterPc>>
    /\ UNCHANGED <<clientVars,
                   ctxErr, runVars, wg, pollerVars, confirmedIP,
                   fetchCalled, lastUpdate>>

\* the update returns an address: it becomes the baseline
UpdaterUpdateOK ==
    /\ updaterPc = "updating"
    /\ \E aliasIP \in IPs :
        /\ previousIP' = BaselineAfterUpdate(aliasIP, latestIP)
        /\ confirmedIP' = aliasIP
    /\ Log("update", "Updated IP alias")
    /\ lastUpdate' = [polled |-> latestIP, ok |-> TRUE]
    /\ latestIP' = NoIP
    /\ updaterPc' = "select"
    /\ UNCHANGED <<clientVars,
                   ctxErr, runVars, wg, ips, pollerVars, updateCalls,
                   fetchCalled>>

\* updateDNS giving up after a failed update
AfterUpdateError_Return == "returning"

\* where updateDNS goes after a failed update: back to the select
AfterUpdateError == "select"

\* the update returns an error: log it and go on with the loop
UpdaterUpdateFail ==
    /\ updaterPc = "updating"
    /\ previousIP' = BaselineAfterError(previousIP, latestIP)
    /\ Log("update", "Error updating DNS alias")
    /\ lastUpdate' = [polled |-> latestIP, ok |-> FALSE]
    /\ latestIP' = NoIP
    /\ updaterPc' = AfterUpdateError
    /\ UNCHANGED <<clientVars,
                   ctxErr, runVars, wg, ips, pollerVars, confirmedIP,
                   updateCalls, fetchCalled>>

\* an Updater that leaves on a cancel and not on a deadline
UpdaterSeesDone_CancelOnly(c) == c = <<"context.Canceled">>

\* the ctx.Done() case of updateDNS is ready when the context is done
UpdaterSeesDone(c) == c # NilErr

\* case <-ctx.Done(): log "Shutdown requested"; return
UpdaterShutdown ==
    /\ updaterPc = "select"
    /\ UpdaterSeesDone(ctxErr)
    /\ Log("update", "Shutdown requested")
    /\ updaterPc' = "returning"
    /\ UNCHANGED <<clientVars,
                   ctxErr, runVars, wg, ips, pollerVars, previousIP,
                   latestIP, confirmedIP, updateCalls, fetchCalled,
                   lastUpdate>>

\* the deferred wg.Done() of the Updater's goroutine
UpdaterExit ==
    /\ updaterPc = "returning"
    /\ wg' = wg - 1
    /\ updaterPc' = "done"
    /\ UNCHANGED <<clientVars,
                   ctxErr, runVars, ips, pollerVars, previousIP, latestIP,
                   lastMsg, shutdownLogged, confirmedIP, updateCalls,
                   fetchCalled, lastUpdate>>

(***************************************************************************)
(* The SDK client: MyIPWithContext and UpdateAliasWithContext, which both  *)
(* call fetchIP.  The server's answer is a status code and a body; a body  *)
(* is given by its length, by the length of its prefix that is the text of *)
(* an IP address (0 when it has none; net.IP.UnmarshalText accepts a text  *)
(* only as a whole) and by that address.  The reader of the body delivers  *)
(* it in chunks and ends with io.EOF, or fails for good after failAt       *)
(* bytes, as the body of an HTTP response does when the connection breaks. *)
(***************************************************************************)
\* number of bytes a body may have beyond maxIPStrLen
MaxOver == 1

\* const maxIPStrLen = 48
maxIPStrLen == 48

\* length of the text "1.2.3.4"
SampleTextLen == 7

\* the operations of the client with their method and path
ClientOps == { <<"MyIPWithContext", "GET", "my-ip">>,
               <<"UpdateAliasWithContext", "POST", "dns-value">> }

StatusCodes == {200, 204, 404}

BodyLens == {0, SampleTextLen - 2, SampleTextLen, SampleTextLen + 1}
                \cup ((maxIPStrLen - 1)..(maxIPStrLen + MaxOver))

\* net.ParseIP returns 16-byte slices
ParsedIPs == {ip \in IPs : ip.len = 16}

Bodies ==
    {[len |-> l, ipLen |-> 0, ip |-> NoIP] : l \in BodyLens}
        \cup {[len |-> l, ipLen |-> SampleTextLen, ip |-> i] :
                l \in {n \in BodyLens : n >= SampleTextLen}, i \in ParsedIPs}

\* bytes the reader delivers before it fails
FailAts == {NoFail, 0, SampleTextLen - 2}

\* the answers to a request: an error of the transport, or a response
Responses ==
    {[err |-> <<"transport error">>, status |-> 0,
      body |-> [len |-> 0, ipLen |-> 0, ip |-> NoIP], failAt |-> NoFail]}
        \cup [err : {NilErr}, status : StatusCodes, body : Bodies,
              failAt : FailAts]

\* the whole body is the text of an IP address
IsIPText(body) == body.ipLen > 0 /\ body.ipLen = body.len

\* a status check that lets every 2xx code pass
StatusOK_Any2xx(code) == code >= 200 /\ code < 300

\* doRequest: resp.StatusCode != 200 is an error
StatusOK(code) == code = 200

\* ip.UnmarshalText(buf[:size]): an empty text leaves ip nil without an
\* error; any other text is parsed as a whole by net.ParseIP
UnmarshalText(body, size) ==
    IF size = 0 THEN [ip |-> NoIP, err |-> NilErr]
    ELSE IF size = body.ipLen THEN [ip |-> body.ip, err |-> NilErr]
    ELSE [ip |-> NoIP, err |-> <<"net.ParseError">>]

\* bytes of the body the reader has yet to deliver when size were read
Available(resp, size) ==
    IF resp.failAt = NoFail \/ resp.failAt >= resp.body.len
    THEN resp.body.len - size
    ELSE resp.failAt - size

\* the reader fails once it has delivered what it can
ReaderFails(resp) ==
    resp.failAt # NoFail /\ resp.failAt < resp.body.len

\* MyIPWithContext or UpdateAliasWithContext calls fetchIP, which builds the
\* request with newRequest and sends it
ClientCall ==
    /\ clPc = "idle"
    /\ \E op \in ClientOps : clOp' = op
    /\ \E resp \in Responses : clResp' = resp
    /\ clPc' = "request"
    /\ UNCHANGED <<agentVars, clSize, clN, clTurn, clParsed, clIP, clErr>>

\* newRequest fails: fetchIP returns its error
ClientRequestFail ==
    /\ clPc = "idle"
    /\ \E op \in ClientOps : clOp' = op
    /\ clErr' = <<"invalid request">>
    /\ clPc' = "done"
    /\ UNCHANGED <<agentVars, clResp, clSize, clN, clTurn, clParsed, clIP>>

\* doRequest: HTTPClient.Do fails, or the status is not 200: fetchIP
\* returns the error
ClientDoFail ==
    /\ clPc = "request"
    /\ clResp.err # NilErr \/ ~StatusOK(clResp.status)
    /\ clErr' = IF clResp.err # NilErr THEN clResp.err
                ELSE <<"UnexpectedStatusCode">>
    /\ clPc' = "done"
    /\ UNCHANGED <<agentVars, clOp, clResp, clSize, clN, clTurn, clParsed,
                   clIP>>

\* doRequest returns a 200 response: parseIP makes the limited reader and
\* the buffer
ClientDoOK ==
    /\ clPc = "request"
    /\ clResp.err = NilErr
    /\ StatusOK(clResp.status)
    /\ clN' = maxIPStrLen
    /\ clSize' = 0
    /\ clPc' = "reading"
    /\ UNCHANGED <<agentVars, clOp, clResp, clTurn, clParsed, clIP, clErr>>

\* one turn of the loop of parseIP in which lr.Read returns bytes and no
\* io.EOF: size += n
ClientReadData ==
    /\ clPc = "reading"
    /\ clN > 0
    /\ \E n \in 1..maxIPStrLen :
        /\ n <= clN
        /\ n <= Available(clResp, clSize)
        /\ clSize' = clSize + n
        /\ clN' = clN - n
    /\ clTurn' = 1 - clTurn
    /\ UNCHANGED <<agentVars, clPc, clOp, clResp, clParsed, clIP, clErr>>

\* one turn of the loop in which lr.Read returns an error that is not
\* io.EOF: the loop goes on
ClientReadError ==
    /\ clPc = "reading"
    /\ clN > 0
    /\ Available(clResp, clSize) = 0
    /\ ReaderFails(clResp)
    /\ clTurn' = 1 - clTurn
    /\ UNCHANGED <<agentVars, clPc, clOp, clResp, clSize, clN, clParsed,
                   clIP, clErr>>

\* the turn of the loop in which lr.Read returns io.EOF (the limit is
\* reached or the body is at its end), with the last bytes or with none:
\* break, then err = ip.UnmarshalText(buf[:size]) and return
ClientReadEOF ==
    /\ clPc = "reading"
    /\ \E n \in 0..maxIPStrLen :
        /\ n <= clN
        /\ n = Available(clResp, clSize) \/ (clN = 0 /\ n = 0)
        /\ clN > 0 => ~ReaderFails(clResp)
        /\ clSize' = clSize + n
        /\ clN' = clN - n
        /\ clIP' = UnmarshalText(clResp.body, clSize + n).ip
        /\ clErr' = UnmarshalText(clResp.body, clSize + n).err
    /\ clTurn' = 1 - clTurn
    /\ clParsed' = TRUE
    /\ clPc' = "done"
    /\ UNCHANGED <<agentVars, clOp, clResp>>

\* the caller takes the result, and the client is ready for another call
ClientReturn ==
    /\ clPc = "done"
    /\ clPc' = "idle"
    /\ clOp' = ""
    /\ clResp' = NoResp
    /\ clSize' = 0
    /\ clN' = 0
    /\ clTurn' = 0
    /\ clParsed' = FALSE
    /\ clIP' = NoIP
    /\ clErr' = NilErr
    /\ UNCHANGED agentVars

ClientNext ==
    \/ ClientCall
    \/ ClientRequestFail
    \/ ClientDoFail
    \/ ClientDoOK
    \/ ClientReadData
    \/ ClientReadError
    \/ ClientReadEOF
    \/ ClientReturn

ClientSpec == Init /\ [][ClientNext]_vars

\* a call of the client takes its next step and, in the loop of parseIP,
\* its next turn
ClientFairness ==
    /\ WF_vars(ClientDoFail)
    /\ WF_vars(ClientDoOK)
    /\ WF_vars(ClientReadData \/ ClientReadError \/ ClientReadEOF)

ClientFairSpec == ClientSpec /\ ClientFairness

Next ==
    \/ Cancel
    \/ Tick
    \/ RunInit
    \/ RunBootstrapOK
    \/ RunBootstrapFail
    \/ RunLaunchPoller
    \/ RunLaunchUpdater
    \/ RunWait
    \/ RunReturn
    \/ PollerStart
    \/ PollerTick
    \/ PollerFetchOK
    \/ PollerFetchFail
    \/ PollerSend
    \/ PollerShutdown
    \/ PollerExit
    \/ UpdaterStart
    \/ UpdaterReceive
    \/ UpdaterUpdateOK
    \/ UpdaterUpdateFail
    \/ UpdaterShutdown
    \/ UpdaterExit

Spec == Init /\ [][Next]_vars

TypeOK ==
    /\ ctxErr \in CtxErrs \cup {NilErr}
    /\ lastUpdate \in [polled : IPs \cup {NoIP}, ok : BOOLEAN]
    /\ wg \in 0..2
    /\ Len(ips) <= ChanCap
    /\ \A i \in 1..Len(ips) : ips[i] \in IPs
    /\ previousIP \in IPs \cup {NoIP}
    /\ updateCalls \in 0..MaxCalls
    /\ bootCtxDone \in BOOLEAN

(***************************************************************************)
(* The scheduling of the program: a goroutine that can take a step takes   *)
(* one, a client call returns, the ticker keeps ticking, and a select      *)
(* whose ctx.Done() case is ready again and again takes it in the end (a   *)
(* select picks among its ready cases at random).  A client call returns   *)
(* with one outcome or the other, so fairness is on the pair.  Cancel is   *)
(* up to the environment.                                                  *)
(***************************************************************************)
Fairness ==
    /\ WF_vars(Tick)
    /\ WF_vars(RunInit)
    /\ WF_vars(RunBootstrapOK \/ RunBootstrapFail)
    /\ WF_vars(RunLaunchPoller)
    /\ WF_vars(RunLaunchUpdater)
    /\ WF_vars(RunWait)
    /\ WF_vars(RunReturn)
    /\ WF_vars(PollerStart)
    /\ WF_vars(PollerTick)
    /\ WF_vars(PollerFetchOK \/ PollerFetchFail)
    /\ WF_vars(PollerSend)
    /\ SF_vars(PollerShutdown)
    /\ WF_vars(PollerExit)
    /\ WF_vars(UpdaterStart)
    /\ WF_vars(UpdaterReceive)
    /\ WF_vars(UpdaterUpdateOK \/ UpdaterUpdateFail)
    /\ SF_vars(UpdaterShutdown)
    /\ WF_vars(UpdaterExit)

FairSpec == Spec /\ Fairness

(***************************************************************************)
(* Properties.                                                             *)
(***************************************************************************)
\* the bootstrap update has returned an address
BootstrapSucceeded ==
    runPc \in {"launchPoller", "launchUpdater", "wait", "stopped", "returned"}

\* updateDNS has initialised its baseline
UpdaterStarted == updaterPc \in {"select", "updating", "returning", "done"}

\* C1: after a successful bootstrap update, once the context is cancelled
\* Run eventually returns, under the scheduling above.
C1_RunReturnsAfterCancel ==
    (BootstrapSucceeded /\ ctxErr # NilErr) ~> (runPc = "returned")

\* C2: the baseline of the Updater is the address returned by the last
\* successful UpdateAlias call (the bootstrap call or one of the Updater),
\* never a value that was only polled.
C2_BaselineIsConfirmed ==
    UpdaterStarted => previousIP = confirmedIP

\* C2: an update of the Updater has changed the baseline, and a polled value
\* that differs from it waits in the channel
C2_Witness ==
    /\ updaterPc = "select"
    /\ lastUpdate.ok
    /\ Len(ips) = 1
    /\ AddrOf(ips[1]) # AddrOf(previousIP)

\* C3: when the bootstrap update fails while the context is cancelled, Run
\* returns an error that unwraps to the error of the context, whatever
\* error the client returned, and MyIPWithContext is never called.
C3_PrematureShutdownError ==
    (runPc = "failed" /\ bootCtxErr # NilErr)
        => (ErrorIs(runErr, bootCtxErr) /\ ~fetchCalled)

\* C4: when the bootstrap update fails and the context is not cancelled, Run
\* returns an error that unwraps to the error of the client; one UpdateAlias
\* call was made, neither unit is started and MyIPWithContext is not called.
C4_FailedStartupError ==
    (runPc = "failed" /\ bootCtxErr = NilErr)
        => /\ ErrorIs(runErr, bootErr)
           /\ bootErr \in ClientErrs
           /\ updateCalls = 1
           /\ pollerPc = "idle"
           /\ updaterPc = "idle"
           /\ wg = 0
           /\ ~fetchCalled

\* C4: Run has returned the error of a failed start, and the context was
\* cancelled only after that
C4_Witness ==
    /\ runPc = "failed"
    /\ bootCtxErr = NilErr
    /\ bootErr = <<"alias update error">>
    /\ ctxErr # NilErr

\* C5: after a successful bootstrap update, Run returns a nil error, whatever
\* the fetches and updates did and whatever the reason of the cancellation.
C5_NilAfterStartup ==
    (BootstrapSucceeded /\ runPc = "returned") => runErr = NilErr

\* C5: Run has returned after a deadline passed, and the last update of the
\* Updater had failed
C5_Witness ==
    /\ runPc = "returned"
    /\ ctxErr = <<"context.DeadlineExceeded">>
    /\ lastUpdate # NoUpdate
    /\ ~lastUpdate.ok

\* C6: after a successful bootstrap update and as long as the context is not
\* cancelled, neither unit exits and Run does not return.
C6_RunsUntilCancelled ==
    (BootstrapSucceeded /\ ctxErr = NilErr)
        => /\ runPc \notin {"stopped", "returned"}
           /\ pollerPc \notin {"returning", "done"}
           /\ updaterPc \notin {"returning", "done"}

\* C6: a fetch has just failed after an update had failed, the context is not
\* cancelled and both units are at their select
C6_Witness ==
    /\ ctxErr = NilErr
    /\ lastMsg = <<"refresh", "Error fetching my IP address">>
    /\ lastUpdate # NoUpdate
    /\ ~lastUpdate.ok
    /\ pollerPc = "select"
    /\ updaterPc = "select"

\* C7: Run logs "Agent stopped" and returns only after both units have
\* terminated, each having logged "Shutdown requested"; "Agent stopped" is
\* the last record of the session.
C7_StoppedAfterBothUnits ==
    (runPc \in {"stopped", "returned"} \/ lastMsg = <<"", "Agent stopped">>)
        => /\ pollerPc = "done"
           /\ updaterPc = "done"
           /\ wg = 0
           /\ shutdownLogged = {"refresh", "update"}
           /\ lastMsg = <<"", "Agent stopped">>

\* C7: Run has logged "Agent stopped" and not returned yet
C7_Witness ==
    /\ runPc = "stopped"
    /\ lastMsg = <<"", "Agent stopped">>

\* C8: a polled value the Updater receives starts one UpdateAlias call if
\* its address differs from the address of the baseline and none if it is
\* the same, and the Updater starts no UpdateAlias call but on a receive.
C8_UpdateIffAddressDiffers ==
    [][ IF Len(ips') < Len(ips)
        THEN IF AddrOf(Head(ips)) # AddrOf(previousIP)
             THEN /\ updaterPc' = "updating"
                  /\ updateCalls' = CountCall(updateCalls)
             ELSE /\ updaterPc' = "select"
                  /\ updateCalls' = updateCalls
        ELSE /\ (updaterPc' = "updating") => (updaterPc = "updating")
             /\ (updateCalls' # updateCalls) => (runPc = "start") ]_vars

\* C8: after an update of the Updater succeeded, a polled value with the
\* address of the new baseline was received and started no update
C8_Witness ==
    /\ lastMsg = <<"update", "No change in latest IP address">>
    /\ updaterPc = "select"
    /\ lastUpdate.ok

\* C9: when an UpdateAlias call of the Updater succeeds, the baseline becomes
\* the address the call returned.
C9_BaselineIsReturnedAddress ==
    [][ (updaterPc = "updating"
            /\ lastMsg' = <<"update", "Updated IP alias">>)
        => previousIP' = confirmedIP' ]_vars

\* C9: an update succeeded and the baseline has another address than the
\* polled value that triggered it
C9_Witness ==
    /\ lastMsg = <<"update", "Updated IP alias">>
    /\ lastUpdate.ok
    /\ AddrOf(previousIP) # AddrOf(lastUpdate.polled)

\* C10: when an UpdateAlias call of the Updater fails, the baseline is left
\* unchanged and the Updater goes on; the next polled value it receives whose
\* address differs from the baseline starts another UpdateAlias call.
C10_FailedUpdateIsRetried ==
    [][ /\ (updaterPc = "updating"
                /\ lastMsg' = <<"update", "Error updating DNS alias">>)
            => (previousIP' = previousIP /\ updaterPc' = "select")
        /\ (/\ Len(ips') < Len(ips)
            /\ lastUpdate # NoUpdate
            /\ ~lastUpdate.ok
            /\ AddrOf(Head(ips)) # AddrOf(previousIP))
            => (updaterPc' = "updating" /\ latestIP' = Head(ips)) ]_vars

\* C10: an update failed, and the same polled value received again has
\* started another update
C10_Witness ==
    /\ updaterPc = "updating"
    /\ lastUpdate # NoUpdate
    /\ ~lastUpdate.ok
    /\ latestIP = lastUpdate.polled

\* C11: when a fetch of the Poller fails, nothing is sent on the channel, the
\* Poller is back at its select with the ticker running (so that the next
\* tick starts another fetch), and it holds no value to send.
C11_FetchErrorIsAbsorbed ==
    [][ (pollerPc = "fetching"
            /\ lastMsg' = <<"refresh", "Error fetching my IP address">>)
        => /\ ips' = ips
           /\ myIP' = NoIP
           /\ pollerPc' = "select"
           /\ tickerOn' ]_vars

\* C11: a fetch has just failed, the next tick is there and the Poller can
\* take it
C11_Witness ==
    /\ lastMsg = <<"refresh", "Error fetching my IP address">>
    /\ pollerPc = "select"
    /\ ctxErr = NilErr
    /\ tick
    /\ ENABLED PollerTick

\* C12: the Updater compares addresses, not representations: a received
\* value that denotes the address of the baseline starts no UpdateAlias call
\* and is logged as no change, whatever the two representations; a received
\* value that denotes another address starts one.
C12_ComparesAddresses ==
    [][ Len(ips') < Len(ips)
        => /\ (AddrOf(Head(ips)) = AddrOf(previousIP))
                => /\ updaterPc' = "select"
                   /\ lastMsg' = <<"update", "No change in latest IP address">>
           /\ (AddrOf(Head(ips)) # AddrOf(previousIP))
                => /\ updaterPc' = "updating"
                   /\ lastMsg' = <<"update", "IP address change detected">>
                   /\ latestIP' = Head(ips) ]_vars

\* C12: the Updater has received a value that is another representation of
\* the address of its baseline, and has started no update
C12_Witness ==
    /\ lastMsg = <<"update", "No change in latest IP address">>
    /\ updaterPc = "select"
    /\ latestIP # previousIP
    /\ latestIP.len # previousIP.len
    /\ AddrOf(latestIP) = AddrOf(previousIP)

\* C14: for both operations of the client, a response whose status code is
\* not 200 gives an UnexpectedStatusCode error and no address, and its body
\* is neither read nor parsed.
C14_StatusNot200IsError ==
    (clPc = "done" /\ clResp.status \in StatusCodes /\ clResp.status # 200)
        => /\ clErr = <<"UnexpectedStatusCode">>
           /\ clIP = NoIP
           /\ ~clParsed
           /\ clSize = 0

\* C14: UpdateAliasWithContext has returned on a 204 response whose body is
\* the text of an address
C14_Witness ==
    /\ clPc = "done"
    /\ clOp[1] = "UpdateAliasWithContext"
    /\ clResp.status = 204
    /\ IsIPText(clResp.body)

\* C15: for both operations of the client, a 200 response whose body is
\* longer than maxIPStrLen bytes or is not the text of an IP address gives
\* an error and no address.
C15_BadBodyIsError ==
    (/\ clPc = "done"
     /\ clResp.status = 200
     /\ (clResp.body.len > maxIPStrLen \/ ~IsIPText(clResp.body)))
        => (clErr # NilErr /\ clIP = NoIP)

\* C16: when reading the body fails with an error that is not io.EOF, the
\* loop of parseIP ends and the call returns an error.
C16_ReadErrorEndsCall ==
    (clPc = "reading" /\ ReaderFails(clResp))
        ~> (clPc = "done" /\ clErr # NilErr)

\* a unit is blocked: it is at a blocking point and can take no step
PollerBlocked ==
    /\ pollerPc \in {"select", "sending"}
    /\ ~ENABLED (PollerTick \/ PollerSend \/ PollerShutdown)

UpdaterBlocked ==
    /\ updaterPc = "select"
    /\ ~ENABLED (UpdaterReceive \/ UpdaterShutdown)

\* C17: after the context is cancelled no unit stays blocked at a blocking
\* point: a unit that is blocked while the other has returned (so that
\* nothing but the cancellation can release it) does not exist.
C17_NoUnitStaysBlocked ==
    (ctxErr # NilErr)
        => /\ ~(PollerBlocked /\ updaterPc \in {"returning", "done"})
           /\ ~(UpdaterBlocked /\ pollerPc \in {"returning", "done"})

C19_PollerQuietAfterShutdown ==
    [][ ("refresh" \in shutdownLogged)
        => /\ pollerPc' \notin {"select", "fetching", "sending"}
           /\ Len(ips') <= Len(ips)
           /\ ~tickerOn' ]_vars

\* C19: the Poller has returned although a tick is there and the channel
\* has room
C19_Witness ==
    /\ "refresh" \in shutdownLogged
    /\ pollerPc = "done"
    /\ tick
    /\ ips = <<>>

\* C20: after a successful bootstrap update, once the context is cancelled
\* the Updater eventually returns, under the scheduling above, whatever the
\* channel holds and whatever the Poller does.
C20_UpdaterReturnsAfterCancel ==
    (BootstrapSucceeded /\ ctxErr # NilErr) ~> (updaterPc = "done")

\* C20: the Updater has returned after a deadline, leaving a value in the
\* channel and the Poller in its send
C20_Witness ==
    /\ updaterPc = "done"
    /\ ctxErr = <<"context.DeadlineExceeded">>
    /\ Len(ips) = 1
    /\ pollerPc = "sending"

\* C21: after the bootstrap, an UpdateAlias call starts only in a step in
\* which the Updater, waiting in its select, takes from the channel a value
\* that differs from its baseline; the value was fetched before (it comes
\* from the channel, where the Poller put it after its fetch had returned),
\* and no step of the ticker, of the cancellation or of the Poller starts
\* one.
C21_UpdateCausedByPolledValue ==
    [][ (BootstrapSucceeded
            /\ (updateCalls' # updateCalls
                    \/ (updaterPc # "updating" /\ updaterPc' = "updating")))
        => /\ updaterPc = "select"
           /\ Len(ips) > 0
           /\ ips' = Tail(ips)
           /\ latestIP' = Head(ips)
           /\ ~IPEqual(Head(ips), previousIP)
           /\ fetchCalled
           /\ pollerPc' = pollerPc
           /\ ctxErr' = ctxErr ]_vars

\* C21: the Updater is in an UpdateAlias call for a polled value that
\* differs from the baseline, while the context is already cancelled
C21_Witness ==
    /\ updaterPc = "updating"
    /\ latestIP \in IPs
    /\ ~IPEqual(latestIP, previousIP)
    /\ ctxErr # NilErr

\* C22: MyIPWithContext is not called, and neither unit is launched, before
\* the bootstrap UpdateAlias call has returned an address without an error:
\* from the launch on Run holds that address as the starting point.
C22_NothingBeforeBootstrap ==
    (fetchCalled \/ pollerPc # "idle" \/ updaterPc # "idle")
        => /\ runPc \notin {"start", "bootstrap", "failed"}
           /\ bootErr = NilErr
           /\ confirmedIP \in IPs
           /\ updateCalls >= 1

\* C22: the Poller is in its first fetch and the Updater is not launched
\* yet
C22_Witness ==
    /\ pollerPc = "fetching"
    /\ updaterPc = "idle"
    /\ runPc = "launchUpdater"
    /\ confirmedIP \in IPs

\* the steps of the environment, of the supervisor and of the Poller
NotUpdaterStep ==
    \/ Cancel \/ Tick
    \/ RunInit \/ RunBootstrapOK \/ RunBootstrapFail
    \/ RunLaunchPoller \/ RunLaunchUpdater \/ RunWait \/ RunReturn
    \/ PollerStart \/ PollerTick \/ PollerFetchOK \/ PollerFetchFail
    \/ PollerSend \/ PollerShutdown \/ PollerExit

\* C23: the baseline is written by the Updater alone: every step of the
\* Poller, of the supervisor and of the environment leaves it unchanged,
\* and it changes only in a step in which the Updater moves.
C23_BaselineOwnedByUpdater ==
    [][ /\ NotUpdaterStep => previousIP' = previousIP
        /\ previousIP' # previousIP
            => (updaterPc \in {"start", "updating"} /\ updaterPc' = "select")
      ]_vars

\* C23: the Poller has sent a value that differs from the baseline and the
\* Updater has not received it: the baseline is as the Updater left it
C23_Witness ==
    /\ runPc = "wait"
    /\ pollerPc = "select"
    /\ updaterPc = "select"
    /\ Len(ips) = 1
    /\ previousIP \in IPs
    /\ ~IPEqual(ips[1], previousIP)
    /\ lastMsg[1] = "refresh"

\* C24: the Poller holds a fetched value until it is on the channel: from
\* its send it goes nowhere but back to the select, with that value put at
\* the end of the channel, and until then it takes no tick and starts no
\* fetch.
C24_FetchedValueNotDropped ==
    [][ (pollerPc = "sending")
        => \/ /\ pollerPc' = "sending"
              /\ myIP' = myIP
              /\ tick' = tick \/ tick'
              /\ Len(ips') <= Len(ips)
           \/ /\ pollerPc' = "select"
              /\ ips' = Append(ips, myIP) ]_vars

\* C24: the send is blocked on the full channel while a tick waits, and the
\* context is not cancelled
C24_Witness ==
    /\ pollerPc = "sending"
    /\ Len(ips) = 1
    /\ tick
    /\ ctxErr = NilErr

\* the Updater takes a value: it leaves its select for the update call, or
\* stays in it with a new latestIP or a shorter channel
ReceiveStep ==
    /\ updaterPc = "select"
    /\ \/ updaterPc' = "updating"
       \/ updaterPc' = "select"
            /\ (latestIP' # latestIP \/ Len(ips') < Len(ips))

\* C25: the channel is a queue that hands out each value once: a receive
\* gives the Updater the oldest value and takes it out of the channel, a
\* send puts the Poller's value behind the values that wait, and nothing
\* else changes the channel once the units run.
C25_ReceivedOnceInOrder ==
    [][ /\ ReceiveStep
            => (Len(ips) > 0 /\ latestIP' = Head(ips) /\ ips' = Tail(ips))
        /\ (Len(ips') > Len(ips))
            => (pollerPc = "sending" /\ ips' = Append(ips, myIP))
        /\ (ips' # ips /\ pollerPc # "idle")
            => (Len(ips') > Len(ips) \/ ReceiveStep) ]_vars

\* C25: the Updater has taken the first value out of the channel and is in
\* the update call for it, and the Poller is about to send the next one
C25_Witness ==
    /\ updaterPc = "updating"
    /\ ips = <<>>
    /\ pollerPc = "sending"
    /\ myIP # latestIP

\* C26: under the scheduling above (every UpdateAlias call returns), and
\* unless the context is cancelled first, the value the Poller holds in its
\* send gets onto the channel and the value on the channel is taken by the
\* Updater; a value on the channel leaves it only by being received (the
\* Updater gets that very value), never by a later value taking its place.
C26_SentValueIsReceived ==
    /\ (pollerPc = "sending") ~> (ctxErr # NilErr \/ pollerPc = "select")
    /\ (Len(ips) = 1) ~> (ctxErr # NilErr \/ ips = <<>>)
    /\ [][ /\ (pollerPc = "sending" /\ pollerPc' # "sending")
                => ips' = <<myIP>>
           /\ (ips # <<>> /\ ips' # ips)
                => (ips' = <<>> /\ latestIP' = Head(ips)) ]_vars

\* C26: a value waits in the channel and another in the blocked send while
\* the Updater is in an update call, and the context is not cancelled
C26_Witness ==
    /\ ctxErr = NilErr
    /\ updaterPc = "updating"
    /\ Len(ips) = 1
    /\ pollerPc = "sending"
    /\ myIP # ips[1]

UpdateInProgress == runPc = "bootstrap" \/ updaterPc = "updating"
FetchInProgress == pollerPc = "fetching"

\* C28: at most one UpdateAlias call and at most one MyIPWithContext call
\* are in progress: during the bootstrap call no unit exists, and while a
\* call of either kind is in progress no call of that kind starts.
C28_OneCallOfAKindAtATime ==
    /\ [](runPc = "bootstrap"
            => (updaterPc = "idle" /\ pollerPc = "idle"))
    /\ [](updaterPc = "updating"
            => runPc \notin {"start", "bootstrap"})
    /\ [][ /\ UpdateInProgress => updateCalls' = updateCalls
           /\ FetchInProgress => ~(tick /\ ~tick') ]_vars

\* C28: an UpdateAlias call and a MyIPWithContext call are in progress at
\* once, and a value and a tick wait for the two units
C28_Witness ==
    /\ updaterPc = "updating"
    /\ pollerPc = "fetching"
    /\ Len(ips) = 1
    /\ tick
    /\ updateCalls = 2

\* fetched values the Updater has not received
Outstanding == Len(ips) + (IF pollerPc = "sending" THEN 1 ELSE 0)

\* C29: at most 2 fetched values are not yet received by the Updater: the
\* one in the channel and the one the Poller holds in its send.
C29_AtMostTwoOutstanding ==
    /\ Outstanding <= 2
    /\ (pollerPc = "sending" <=> myIP # NoIP)

\* C29: two different values are outstanding and the Updater is idle in
\* its select
C29_Witness ==
    /\ Outstanding = 2
    /\ myIP # ips[1]
    /\ updaterPc = "select"
    /\ ctxErr = NilErr

\* a step of the Poller, of the Updater, of the supervisor: its position
\* changes
PollerMoves == pollerPc' # pollerPc /\ pollerPc # "idle"
UpdaterMoves == updaterPc' # updaterPc /\ updaterPc # "idle"
RunMoves == runPc' # runPc

\* C30: the calls and the channel are divided between the units: an
\* UpdateAlias call is started, and the alias changed, by the supervisor's
\* bootstrap or by the Updater and never in a step of the Poller;
\* MyIPWithContext is called by the Poller alone; only the Poller adds to
\* the channel and only the Updater takes from it.
C30_UnitsKeepToTheirCalls ==
    [][ /\ (updateCalls' # updateCalls)
            => ((runPc = "start" /\ RunMoves)
                    \/ (updaterPc = "select" /\ UpdaterMoves))
        /\ (confirmedIP' # confirmedIP)
            => ((runPc = "bootstrap" /\ RunMoves)
                    \/ (updaterPc = "updating" /\ UpdaterMoves))
        /\ PollerMoves
            => (updateCalls' = updateCalls /\ confirmedIP' = confirmedIP
                    /\ Len(ips') >= Len(ips))
        /\ (fetchCalled' # fetchCalled)
            => (PollerMoves /\ ~UpdaterMoves /\ ~RunMoves)
        /\ UpdaterMoves
            => (fetchCalled' = fetchCalled /\ Len(ips') <= Len(ips))
        /\ (Len(ips') > Len(ips)) => PollerMoves
        /\ (Len(ips') < Len(ips)) => updaterPc = "select" ]_vars

\* C30: the Poller is in a call of MyIPWithContext after the Updater has
\* changed the alias with a call of UpdateAlias
C30_Witness ==
    /\ pollerPc = "fetching"
    /\ updaterPc = "select"
    /\ lastUpdate.ok
    /\ fetchCalled
    /\ updateCalls >= 2

====
